---- MODULE Spec2Model ----
(***************************************************************************)
(* A model of src/Code.js, the IMSCC to Google Forms converter.            *)
(*                                                                         *)
(* One conversion (convertIMSCCToForms) is a sequential program; its       *)
(* position is pc.  Strings the code inspects character by character       *)
(* (paths, file names, type attributes) are sequences of one-character     *)
(* strings, so that split('/'), endsWith, includes and toLowerCase are     *)
(* computed and not looked up.  An option is a sequence of length 0 or 1.  *)
(*                                                                         *)
(* Three specifications run the same actions on different archives: Spec   *)
(* on archives whose entries and manifests vary, SpecBodies on archives    *)
(* whose quiz body varies, SpecRuns on a sequence of conversions.          *)
(***************************************************************************)
EXTENDS Naturals, Sequences, FiniteSets, TLC

VARIABLES
    pc,          \* position inside convertIMSCCToForms
    file,        \* the Drive file picked by fileId (option)
    folders,     \* Drive folders named CONFIG.TEMP_FOLDER_NAME: [trashed]
    tempFolder,  \* the local tempFolder: 0 is null, else an index of folders
    tempFile,    \* the persisted copy of the blob: "none", "live", "trashed"
    unzips,      \* the Utilities.unzip calls made so far: [from, ok]
    extracted,   \* the blobs Utilities.unzip returned (option)
    tree,        \* the nodes under the newest workspace folder, in creation order
    manifest,    \* the parsed manifest document (option)
    quizzes,     \* the quizzes array of findQuizzesInManifest
    qi,          \* loop index into quizzes (content loop, then forms loop)
    resolved,    \* per quiz: how findAndParseQuizContent found its file
    forms,       \* the forms FormApp.create has made, in creation order
    formIds,     \* the results array of createGoogleForms
    sheet,       \* the rows of the active sheet
    result,      \* what the invocation gave its caller (option)
    atStart      \* how many forms and rows there were when the run began

vars == << pc, file, folders, tempFolder, tempFile, unzips, extracted, tree,
           manifest, quizzes, qi, resolved, forms, formIds, sheet, result,
           atStart >>

----------------------------------------------------------------------------
(* Bounds of the model *)

MaxEntries == 3
MaxResources == 2
MaxRuns == 2
MaxItems == 2

----------------------------------------------------------------------------
(* String primitives of JavaScript, over sequences of characters *)

\* String.prototype.endsWith
EndsWith(s, suf) ==
    /\ Len(suf) <= Len(s)
    /\ SubSeq(s, Len(s) - Len(suf) + 1, Len(s)) = suf

\* String.prototype.includes (case-sensitive substring test)
Includes(s, sub) ==
    \E i \in 1..(Len(s) + 1) :
        /\ i + Len(sub) - 1 <= Len(s)
        /\ SubSeq(s, i, i + Len(sub) - 1) = sub

\* String.prototype.toLowerCase, on the letters the model uses
LowerChar(c) ==
    CASE c = "A" -> "a" [] c = "C" -> "c" [] c = "I" -> "i" [] c = "M" -> "m"
      [] c = "Q" -> "q" [] c = "S" -> "s" [] c = "T" -> "t" [] OTHER -> c

ToLowerCase(s) == [i \in 1..Len(s) |-> LowerChar(s[i])]

RECURSIVE SplitFrom(_, _, _)
SplitFrom(s, i, cur) ==
    IF i > Len(s) THEN << cur >>
    ELSE IF s[i] = "/" THEN << cur >> \o SplitFrom(s, i + 1, << >>)
    ELSE SplitFrom(s, i + 1, Append(cur, s[i]))

\* String.prototype.split('/')
Split(s) == SplitFrom(s, 1, << >>)

----------------------------------------------------------------------------
(* String literals of the source *)

SLASH == << "/" >>
DOT_XML == << ".", "x", "m", "l" >>
DOT_IMSCC == << ".", "i", "m", "s", "c", "c" >>
MANIFEST_NAME ==
    << "i", "m", "s", "m", "a", "n", "i", "f", "e", "s", "t", ".", "x", "m", "l" >>
T_QTI12 == << "i", "m", "s", "q", "t", "i", "_", "x", "m", "l", "v", "1", "p", "2" >>
T_QTI21 == << "i", "m", "s", "q", "t", "i", "_", "x", "m", "l", "v", "2", "p", "1" >>
S_ASSESSMENT == << "a", "s", "s", "e", "s", "s", "m", "e", "n", "t" >>
S_QTI == << "q", "t", "i" >>
S_QUIZ == << "q", "u", "i", "z" >>

----------------------------------------------------------------------------
(* The Drive tree under tempFolder.  A node is a file or a folder; parent 0 *)
(* is tempFolder itself, any other parent is an index of tree.  Drive lets  *)
(* two children of one folder carry the same name.                          *)

NoDoc ==
    [ wf |-> FALSE, root |-> "", mentions |-> {}, hasResources |-> FALSE,
      resources |-> << >>, hasAssessment |-> FALSE, titleAttr |-> << >>,
      fields |-> << >>, items |-> << >>, sectionItems |-> << >> ]

Node(parent, name, dir, doc) ==
    [ parent |-> parent, name |-> name, dir |-> dir, doc |-> doc ]

\* folder.getFoldersByName(name): the child folders of cur with that name
FoldersByName(t, cur, name) ==
    { n \in 1..Len(t) : t[n].dir /\ t[n].parent = cur /\ t[n].name = name }

\* folder.getFilesByName(name): the child files of cur with that name
FilesByName(t, cur, name) ==
    { n \in 1..Len(t) : ~t[n].dir /\ t[n].parent = cur /\ t[n].name = name }

Min(S) == CHOOSE x \in S : \A y \in S : x <= y

\* MakeFolders as it would be without the lookup of lines 242-244: a folder
\* is created for every segment of every entry
RECURSIVE MakeFolders_AlwaysCreate(_, _, _, _)
MakeFolders_AlwaysCreate(t, cur, parts, j) ==
    IF j > Len(parts) - 1 THEN << t, cur >>
    ELSE IF parts[j] = << >> THEN MakeFolders_AlwaysCreate(t, cur, parts, j + 1)
    ELSE MakeFolders_AlwaysCreate(Append(t, Node(cur, parts[j], TRUE, NoDoc)),
                                  Len(t) + 1, parts, j + 1)

\* Lines 236-249: walk parts[j..length-2], creating each missing folder.
\* The result is << tree, currentFolder >>.
RECURSIVE MakeFolders(_, _, _, _)
MakeFolders(t, cur, parts, j) ==
    IF j > Len(parts) - 1 THEN << t, cur >>
    ELSE IF parts[j] = << >> THEN MakeFolders(t, cur, parts, j + 1)
    ELSE LET subFolders == FoldersByName(t, cur, parts[j])
         IN  IF subFolders # {}
             THEN MakeFolders(t, Min(subFolders), parts, j + 1)
             ELSE MakeFolders(Append(t, Node(cur, parts[j], TRUE, NoDoc)),
                              Len(t) + 1, parts, j + 1)

\* ExtractBlob as it would be without the skip of lines 225-227: the folders
\* of a directory entry are made before its empty file name is skipped
ExtractBlob_NoDirectorySkip(t, blob) ==
    LET parts == Split(blob.name)
        walked == MakeFolders(t, 0, parts, 1)
        extractedFileName == parts[Len(parts)]
    IN  IF extractedFileName = << >> THEN walked[1]
        ELSE Append(walked[1],
                    Node(walked[2], extractedFileName, FALSE, blob.doc))

\* Lines 221-264, one iteration: one blob of the unzipped array
ExtractBlob(t, blob) ==
    IF EndsWith(blob.name, SLASH) THEN t
    ELSE LET parts == Split(blob.name)
             walked == MakeFolders(t, 0, parts, 1)
             extractedFileName == parts[Len(parts)]
         IN  IF extractedFileName = << >> THEN walked[1]
             ELSE Append(walked[1],
                         Node(walked[2], extractedFileName, FALSE, blob.doc))

\* Lines 219-267: the loop over the unzipped array
RECURSIVE ExtractAll(_, _, _)
ExtractAll(t, blobs, i) ==
    IF i > Len(blobs) THEN t
    ELSE ExtractAll(ExtractBlob(t, blobs[i]), blobs, i + 1)

\* Lines 509-520: the folder findFileByPath ends in, as an option.  No
\* folder of the workspace ever has two child folders of one name (extraction
\* is get-or-create), so the iterator's first element is the only one.
RECURSIVE WalkFolders(_, _, _, _)
WalkFolders(t, cur, parts, i) ==
    IF i > Len(parts) - 1 THEN << cur >>
    ELSE IF parts[i] = << >> THEN WalkFolders(t, cur, parts, i + 1)
    ELSE LET subFolders == FoldersByName(t, cur, parts[i])
         IN  IF subFolders # {}
             THEN WalkFolders(t, Min(subFolders), parts, i + 1)
             ELSE << >>

\* Lines 503-532: the files findFileByPath may return ({} is null).  Two
\* files of one name in one folder come from two archive entries of one path;
\* the iterator's first element is then either of them.
FindFileByPath(t, path) ==
    IF path = << >> THEN {}
    ELSE LET parts == Split(path)
             folder == WalkFolders(t, 0, parts, 1)
             fileName == parts[Len(parts)]
         IN  IF folder = << >> \/ fileName = << >> THEN {}
             ELSE FilesByName(t, folder[1], fileName)

\* Lines 477-494 with the loop of lines 423-436: the files that can be the
\* first element of getAllFilesInFolder(folder) that lies in hits.  A
\* folder's own files come before those of its subfolders; the order inside
\* one iterator is Drive's and not specified.
RECURSIVE FirstMatches(_, _, _)
FirstMatches(t, folder, hits) ==
    LET own == { n \in hits : t[n].parent = folder }
        subs == { n \in 1..Len(t) : t[n].dir /\ t[n].parent = folder }
    IN  IF own # {} THEN own
        ELSE UNION { FirstMatches(t, s, hits) : s \in subs }

----------------------------------------------------------------------------
(* XML documents.  A file's text is kept as what XmlService.parse makes of  *)
(* it: wf says whether it parses; root is the root element's name; mentions *)
(* are the words content.includes() finds in the text.  A manifest has the  *)
(* resources container (in the IMS namespace) and its resource children; a  *)
(* quiz body has the assessment's title attribute, metadata fields, items   *)
(* and the items of its sections.                                           *)

Xml(root, mentions) ==
    [ NoDoc EXCEPT !.wf = TRUE, !.root = root, !.mentions = mentions ]

\* A resource element: type, identifier, href and title are options (the
\* attribute or child may be missing); files holds one option per file child.
Resource(type, identifier, href, files, title) ==
    [ type |-> type, identifier |-> identifier, href |-> href,
      files |-> files, title |-> title ]

Range(f) == { f[i] : i \in DOMAIN f }

\* An attribute value as the manifest's text spells it: '&' is written as
\* the entity '&amp;'
XmlEscape(value) == IF value = "a&b" THEN "a&amp;b" ELSE value

\* The words of a manifest's text that the whole-tree scan looks for
ManifestMentions(resources) ==
    { XmlEscape(r.identifier[1]) : r \in { x \in Range(resources) : x.identifier # << >> } }
    \cup { "qti" : r \in { x \in Range(resources) :
                             x.type # << >> /\ Includes(x.type[1], S_QTI) } }
    \cup { "assessment" : r \in { x \in Range(resources) :
                             x.type # << >> /\ Includes(x.type[1], S_ASSESSMENT) } }

ManifestDoc(hasResources, resources) ==
    [ Xml("manifest", ManifestMentions(resources)) EXCEPT
        !.hasResources = hasResources, !.resources = resources ]

\* A legacy item: its metadata fields and, per respcondition, the varequal
\* text as an option.  A modern item: whether it has an itemBody, the
\* interactions in it, and the values of its correctResponse.
Item(fields, conds, hasBody, interactions, values) ==
    [ fields |-> fields, conds |-> conds, hasBody |-> hasBody,
      interactions |-> interactions, values |-> values ]

Field(label, entry) == [ label |-> label, entry |-> entry ]

LegacyDoc(hasAssessment, titleAttr, fields, items, sectionItems) ==
    [ Xml("questestinterop",
          {"questestinterop"} \cup (IF hasAssessment THEN {"assessment"} ELSE {}))
      EXCEPT !.hasAssessment = hasAssessment, !.titleAttr = titleAttr,
             !.fields = fields, !.items = items, !.sectionItems = sectionItems ]

ModernDoc(titleAttr, items) ==
    [ Xml("assessment", {"assessment"}) EXCEPT
        !.titleAttr = titleAttr, !.items = items ]

\* Text that XmlService.parse rejects
BadDoc(mentions) == [ NoDoc EXCEPT !.mentions = mentions ]

----------------------------------------------------------------------------
(* findQuizzesInManifest, lines 324-372: the selection of resources *)

\* IsQuizType as it would be with the type lower-cased before the tests
IsQuizType_IgnoreCase(type) ==
    \/ ToLowerCase(type) = T_QTI12
    \/ ToLowerCase(type) = T_QTI21
    \/ Includes(ToLowerCase(type), S_ASSESSMENT)
    \/ Includes(ToLowerCase(type), S_QTI)
    \/ Includes(ToLowerCase(type), S_QUIZ)

\* Lines 333-337
IsQuizType(type) ==
    \/ type = T_QTI12
    \/ type = T_QTI21
    \/ Includes(type, S_ASSESSMENT)
    \/ Includes(type, S_QTI)
    \/ Includes(type, S_QUIZ)

\* Lines 326-340: the resource elements that get a descriptor
Selected(r) ==
    /\ r.type # << >>
    /\ IsQuizType(r.type[1])
    /\ r.identifier # << >>

\* Lines 347-354: the href of every file child that has one, in order
RECURSIVE FileHrefs(_, _)
FileHrefs(files, i) ==
    IF i > Len(files) THEN << >>
    ELSE (IF files[i] # << >> THEN << files[i][1] >> ELSE << >>)
         \o FileHrefs(files, i + 1)

\* Lines 342-368: the descriptor pushed for a selected resource
Descriptor(r) ==
    [ identifier |-> r.identifier[1],
      href |-> IF r.href # << >> THEN r.href[1] ELSE << >>,
      files |-> FileHrefs(r.files, 1),
      title |-> IF r.title # << >> THEN r.title[1] ELSE r.identifier[1],
      content |-> << >> ]

RECURSIVE SelectFrom(_, _)
SelectFrom(resources, i) ==
    IF i > Len(resources) THEN << >>
    ELSE (IF Selected(resources[i]) THEN << Descriptor(resources[i]) >> ELSE << >>)
         \o SelectFrom(resources, i + 1)

\* Lines 310-372: quizzes before the content loop
SelectQuizzes(doc) ==
    IF ~doc.hasResources THEN << >> ELSE SelectFrom(doc.resources, 1)

----------------------------------------------------------------------------
(* Parsing a quiz body, lines 541-856 *)

NullAnswer == [ k |-> "null", v |-> << >> ]
Scalar(x) == [ k |-> "scalar", v |-> << x >> ]
List(xs) == [ k |-> "list", v |-> xs ]

Question(type, correctAnswer) ==
    [ type |-> type, correctAnswer |-> correctAnswer, points |-> 1 ]

\* Lines 441-445, 455-459, 463-467, 556-560
Placeholder(quiz) ==
    [ title |-> quiz.title, description |-> "", questions |-> << >> ]

\* Lines 596-602 and 663-669: the entry of the last field with this label and
\* a non-empty entry, or dflt
RECURSIVE FieldEntry(_, _, _, _)
FieldEntry(fields, label, i, dflt) ==
    IF i > Len(fields) THEN dflt
    ELSE FieldEntry(fields, label, i + 1,
                    IF fields[i].label = label /\ fields[i].entry # ""
                    THEN fields[i].entry ELSE dflt)

\* CorrectAnswerV1 as it would be if a multiple-choice answer, once set, were
\* kept
RECURSIVE CorrectAnswerV1_KeepsFirst(_, _, _, _)
CorrectAnswerV1_KeepsFirst(type, conds, i, acc) ==
    IF i > Len(conds) THEN acc
    ELSE IF conds[i] = << >> THEN CorrectAnswerV1_KeepsFirst(type, conds, i + 1, acc)
    ELSE IF type = "multiple_choice_question"
         THEN CorrectAnswerV1_KeepsFirst(type, conds, i + 1,
                 IF acc.k = "null" THEN Scalar(conds[i][1]) ELSE acc)
    ELSE IF type = "multiple_answers_question"
         THEN CorrectAnswerV1_KeepsFirst(type, conds, i + 1,
                 List((IF acc.k = "list" THEN acc.v ELSE << >>) \o << conds[i][1] >>))
    ELSE CorrectAnswerV1_KeepsFirst(type, conds, i + 1, acc)

\* CorrectAnswerV1 as it would be if a multiple-answers value replaced the
\* array instead of being pushed onto it
RECURSIVE CorrectAnswerV1_AnswersOverwrite(_, _, _, _)
CorrectAnswerV1_AnswersOverwrite(type, conds, i, acc) ==
    IF i > Len(conds) THEN acc
    ELSE IF conds[i] = << >>
         THEN CorrectAnswerV1_AnswersOverwrite(type, conds, i + 1, acc)
    ELSE IF type = "multiple_choice_question"
         THEN CorrectAnswerV1_AnswersOverwrite(type, conds, i + 1, Scalar(conds[i][1]))
    ELSE IF type = "multiple_answers_question"
         THEN CorrectAnswerV1_AnswersOverwrite(type, conds, i + 1,
                                               List(<< conds[i][1] >>))
    ELSE CorrectAnswerV1_AnswersOverwrite(type, conds, i + 1, acc)

\* Lines 714-729: the respconditions folded into correctAnswer
RECURSIVE CorrectAnswerV1(_, _, _, _)
CorrectAnswerV1(type, conds, i, acc) ==
    IF i > Len(conds) THEN acc
    ELSE IF conds[i] = << >> THEN CorrectAnswerV1(type, conds, i + 1, acc)
    ELSE IF type = "multiple_choice_question"
         THEN CorrectAnswerV1(type, conds, i + 1, Scalar(conds[i][1]))
    ELSE IF type = "multiple_answers_question"
         THEN CorrectAnswerV1(type, conds, i + 1,
                 List((IF acc.k = "list" THEN acc.v ELSE << >>) \o << conds[i][1] >>))
    ELSE CorrectAnswerV1(type, conds, i + 1, acc)

\* Lines 642-737
ParseQtiv1Item(item) ==
    LET type == FieldEntry(item.fields, "question_type", 1, "")
    IN  Question(type, CorrectAnswerV1(type, item.conds, 1, NullAnswer))

\* ParseQtiv2Item as it would be with textEntryInteraction tested before
\* extendedTextInteraction
ParseQtiv2Item_TextEntryFirst(item) ==
    LET type ==
            IF ~item.hasBody THEN ""
            ELSE IF "choiceInteraction" \in item.interactions
                 THEN "multiple_choice_question"
            ELSE IF "textEntryInteraction" \in item.interactions
                 THEN "short_answer_question"
            ELSE IF "extendedTextInteraction" \in item.interactions
                 THEN "essay_question"
            ELSE ""
        correctAnswer ==
            IF Len(item.values) = 1 THEN Scalar(item.values[1])
            ELSE IF Len(item.values) > 1 THEN List(item.values)
            ELSE NullAnswer
    IN  Question(type, correctAnswer)

\* ParseQtiv2Item as it would be if only the first value were read
ParseQtiv2Item_FirstValueOnly(item) ==
    LET type ==
            IF ~item.hasBody THEN ""
            ELSE IF "choiceInteraction" \in item.interactions
                 THEN "multiple_choice_question"
            ELSE IF "extendedTextInteraction" \in item.interactions
                 THEN "essay_question"
            ELSE IF "textEntryInteraction" \in item.interactions
                 THEN "short_answer_question"
            ELSE ""
        correctAnswer ==
            IF Len(item.values) >= 1 THEN Scalar(item.values[1])
            ELSE NullAnswer
    IN  Question(type, correctAnswer)

\* Lines 785-856
ParseQtiv2Item(item) ==
    LET type ==
            IF ~item.hasBody THEN ""
            ELSE IF "choiceInteraction" \in item.interactions
                 THEN "multiple_choice_question"
            ELSE IF "extendedTextInteraction" \in item.interactions
                 THEN "essay_question"
            ELSE IF "textEntryInteraction" \in item.interactions
                 THEN "short_answer_question"
            ELSE ""
        correctAnswer ==
            IF Len(item.values) = 1 THEN Scalar(item.values[1])
            ELSE IF Len(item.values) > 1 THEN List(item.values)
            ELSE NullAnswer
    IN  Question(type, correctAnswer)

\* Lines 571-634
ParseQtiv1Quiz(root, quiz) ==
    IF ~root.hasAssessment THEN Placeholder(quiz)
    ELSE [ title |-> IF root.titleAttr # << >> THEN root.titleAttr[1] ELSE quiz.title,
           description |-> FieldEntry(root.fields, "qmd_description", 1, ""),
           questions |->
               [ i \in 1..Len(root.items) |-> ParseQtiv1Item(root.items[i]) ]
               \o [ i \in 1..Len(root.sectionItems) |->
                        ParseQtiv1Item(root.sectionItems[i]) ] ]

\* Lines 746-777
ParseQtiv2Quiz(root, quiz) ==
    [ title |-> IF root.titleAttr # << >> THEN root.titleAttr[1] ELSE quiz.title,
      description |-> "",
      questions |-> [ i \in 1..Len(root.items) |-> ParseQtiv2Item(root.items[i]) ] ]

\* Lines 541-562
ParseQuizXml(document, quiz) ==
    IF document.root = "questestinterop" THEN ParseQtiv1Quiz(document, quiz)
    ELSE IF document.root = "assessment" THEN ParseQtiv2Quiz(document, quiz)
    ELSE Placeholder(quiz)

\* Lines 448-460: the content made of the file that was found
ParseFound(doc, quiz) ==
    IF doc.wf THEN ParseQuizXml(doc, quiz) ELSE Placeholder(quiz)

\* Lines 424-430: the files the whole-tree scan accepts
ScanHits(t, quiz) ==
    { n \in 1..Len(t) :
        /\ ~t[n].dir
        /\ EndsWith(t[n].name, DOT_XML)
        /\ \/ "questestinterop" \in t[n].doc.mentions
           \/ "assessment" \in t[n].doc.mentions
           \/ "qti" \in t[n].doc.mentions
           \/ quiz.identifier = ""
           \/ quiz.identifier \in t[n].doc.mentions }

\* Lines 407-417: the index of the first declared href that ends in '.xml'
\* and resolves, or 0
RECURSIVE FirstDeclared(_, _, _)
FirstDeclared(t, files, i) ==
    IF i > Len(files) THEN 0
    ELSE IF EndsWith(files[i], DOT_XML) /\ FindFileByPath(t, files[i]) # {}
         THEN i
    ELSE FirstDeclared(t, files, i + 1)

\* Lines 398-437: the outcomes of the search for the quiz file, each with
\* the strategy that ended it (via), the file (0 is null) and whether the
\* whole-tree scan ran
Found(via, node, scanned) == [ via |-> via, node |-> node, scanned |-> scanned ]

\* FindQuizFile as it would be with the declared files tried before the href
FindQuizFile_DeclaredFirst(t, quiz) ==
    LET byHref == IF quiz.href # << >> THEN FindFileByPath(t, quiz.href) ELSE {}
        d == FirstDeclared(t, quiz.files, 1)
        scan == FirstMatches(t, 0, ScanHits(t, quiz))
    IN  IF d # 0
        THEN { Found("files", n, FALSE) : n \in FindFileByPath(t, quiz.files[d]) }
        ELSE IF byHref # {} THEN { Found("href", n, FALSE) : n \in byHref }
        ELSE IF scan # {} THEN { Found("scan", n, TRUE) : n \in scan }
        ELSE { Found("none", 0, TRUE) }

FindQuizFile(t, quiz) ==
    LET byHref == IF quiz.href # << >> THEN FindFileByPath(t, quiz.href) ELSE {}
        d == FirstDeclared(t, quiz.files, 1)
        scan == FirstMatches(t, 0, ScanHits(t, quiz))
    IN  IF byHref # {} THEN { Found("href", n, FALSE) : n \in byHref }
        ELSE IF d # 0
             THEN { Found("files", n, FALSE) : n \in FindFileByPath(t, quiz.files[d]) }
        ELSE IF scan # {} THEN { Found("scan", n, TRUE) : n \in scan }
        ELSE { Found("none", 0, TRUE) }

\* Lines 396-469: the content for an outcome of the search
QuizContent(t, quiz, found) ==
    IF found.node = 0 THEN Placeholder(quiz)
    ELSE ParseFound(t[found.node].doc, quiz)

----------------------------------------------------------------------------
(* Forms and the sheet, lines 864-1094 *)

\* Lines 966-1033: the widget addQuestionToForm adds for a question type
Widget(type) ==
    CASE type = "multiple_choice_question" -> "MultipleChoice"
      [] type = "multiple_answers_question" -> "Checkbox"
      [] type = "essay_question" -> "ParagraphText"
      [] type = "short_answer_question" -> "Text"
      [] type = "true_false_question" -> "MultipleChoice"
      [] OTHER -> "ParagraphText"

\* Lines 952-1046: the item added to a form; points is an option, set only
\* when form.isQuiz() holds at that moment
AddQuestionToForm(isQuiz, question) ==
    [ widget |-> Widget(question.type),
      points |-> IF isQuiz /\ question.points > 0 THEN << question.points >>
                 ELSE << >> ]

\* HasCorrectAnswers as it would be if any question made the form a quiz
HasCorrectAnswers_AnyQuestion(questions) == Len(questions) > 0

\* Line 913
HasCorrectAnswers(questions) ==
    \E i \in DOMAIN questions : questions[i].correctAnswer.k # "null"

\* Lines 891-919: the form made of a quiz's content.  The questions are added
\* while the new form is not a quiz yet; setIsQuiz comes after them.
MakeForm(quiz) ==
    LET content == quiz.content[1]
        created == [ title |-> IF content.title # "" THEN content.title
                               ELSE "Quiz " \o quiz.identifier,
                     description |-> content.description,
                     items |-> << >>,
                     isQuiz |-> FALSE ]
    IN  [ created EXCEPT
            !.items = [ i \in DOMAIN content.questions |->
                          AddQuestionToForm(created.isQuiz, content.questions[i]) ],
            !.isQuiz = HasCorrectAnswers(content.questions) ]

\* Lines 924-931: the entry of results for form number id
FormInfo(id, form, quiz) ==
    [ id |-> id, title |-> form.title,
      numQuestions |-> Len(quiz.content[1].questions) ]

HeaderRow == [ header |-> TRUE, id |-> 0, title |-> "Form Title", numQuestions |-> 0 ]

DataRow(info) ==
    [ header |-> FALSE, id |-> info.id, title |-> info.title,
      numQuestions |-> info.numQuestions ]

\* UpdateSpreadsheetWithFormInfo as it would be without the test of line 1060
UpdateSpreadsheetWithFormInfo_AlwaysHeader(rows, formData) ==
    Append(rows, HeaderRow)
    \o [ i \in DOMAIN formData |-> DataRow(formData[i]) ]

\* Lines 1053-1094
UpdateSpreadsheetWithFormInfo(rows, formData) ==
    (IF Len(rows) = 0 THEN << HeaderRow >> ELSE rows)
    \o [ i \in DOMAIN formData |-> DataRow(formData[i]) ]

\* Lines 1101-1112
CleanupTempFolder(fs, tf) == [ fs EXCEPT ![tf].trashed = TRUE ]

----------------------------------------------------------------------------
(* The files of the user's Drive that a conversion can be given *)

P_Q == << "q", ".", "x", "m", "l" >>
P_D_Q == << "d", "/", "q", ".", "x", "m", "l" >>
P_D_E_QTXT == << "d", "/", "e", "/", "q", ".", "t", "x", "t" >>
P_D__Q == << "d", "/", "/", "q", ".", "x", "m", "l" >>
P_X_Q == << "x", "/", "q", ".", "x", "m", "l" >>
P_D_E == << "d", "/", "e", "/" >>
P_D_MANIFEST == << "d", "/" >> \o MANIFEST_NAME

T_WEBCONTENT == << "w", "e", "b", "c", "o", "n", "t", "e", "n", "t" >>
T_UPPER_QTI == << "I", "M", "S", "Q", "T", "I" >>
T_MY_QUIZ == << "m", "y", "q", "u", "i", "z" >>
T_ASSESSMENT_X == S_ASSESSMENT \o << "/", "x" >>

N_IMSCC == << "a" >> \o DOT_IMSCC
N_UPPER_IMSCC == << "A", ".", "I", "M", "S", "C", "C" >>
N_ZIP == << "a", ".", "z", "i", "p" >>

Blob(name, doc) == [ name |-> name, doc |-> doc ]

LegacyQuiz ==
    LegacyDoc(TRUE, << "Legacy" >>, << Field("qmd_description", "about") >>,
              << Item(<< Field("question_type", "multiple_choice_question") >>,
                      << << "A" >>, << >>, << "B" >> >>, FALSE, {}, << >>) >>,
              << Item(<< Field("question_type", "essay_question") >>,
                      << >>, FALSE, {}, << >>) >>)

ModernQuiz ==
    ModernDoc(<< >>, << Item(<< >>, << >>, TRUE, {"choiceInteraction"}, << "A" >>) >>)

OtherXml == Xml("html", {})

\* The manifest of the archives whose entries vary: r1 has an href and two
\* declared files, r2 has no href, a file child without href and three
\* declared files, the first of them never in the archive.
TreeManifest ==
    ManifestDoc(TRUE,
        << Resource(<< T_QTI12 >>, << "r1" >>, << P_Q >>,
                    << << P_D_E_QTXT >>, << P_D_Q >> >>, << >>),
           Resource(<< T_MY_QUIZ >>, << "r2" >>, << >>,
                    << << >>, << P_X_Q >>, << P_D_Q >>, << P_Q >> >>,
                    << "Second" >>) >>)

\* A manifest whose only resource matches by 'quiz' alone and has an
\* identifier that its text spells with an entity
EntityManifest ==
    ManifestDoc(TRUE,
        << Resource(<< T_MY_QUIZ >>, << "a&b" >>, << P_X_Q >>, << >>, << >>) >>)

EntryPool ==
    { Blob(MANIFEST_NAME, TreeManifest),
      Blob(MANIFEST_NAME, EntityManifest),
      Blob(MANIFEST_NAME, BadDoc({})),
      Blob(P_D_MANIFEST, TreeManifest),
      Blob(P_D_E, NoDoc),
      Blob(P_Q, LegacyQuiz),
      Blob(P_D_Q, ModernQuiz),
      Blob(P_D_E_QTXT, OtherXml),
      Blob(P_D__Q, BadDoc({})) }

SeqsUpTo(S, n) == UNION { [1..k -> S] : k \in 0..n }

\* Archives whose entry list varies
TreeFamily == SeqsUpTo(EntryPool, MaxEntries)

ResourcePool ==
    { Resource(type, << "r1" >>, << P_Q >>, << >>, << >>) :
        type \in { << >>, << T_QTI12 >>, << T_QTI21 >>, << T_WEBCONTENT >>,
                   << T_UPPER_QTI >>, << T_MY_QUIZ >>, << T_ASSESSMENT_X >> } }
    \cup { Resource(<< T_QTI12 >>, << >>, << P_Q >>, << >>, << >>),
           Resource(<< T_QTI21 >>, << "r2" >>, << >>, << << P_D_Q >> >>, << "Second" >>),
           Resource(<< T_WEBCONTENT >>, << "r2" >>, << P_D_Q >>, << >>, << >>) }

\* Archives whose manifest varies
ManifestFamily ==
    { << Blob(MANIFEST_NAME, m), Blob(P_Q, LegacyQuiz), Blob(P_D_Q, ModernQuiz) >> :
        m \in { ManifestDoc(FALSE, << >>) }
              \cup { ManifestDoc(TRUE, rs) : rs \in SeqsUpTo(ResourcePool, MaxResources) } }

DriveFile(name, entries) == [ name |-> name, entries |-> entries ]

DriveFiles ==
    { DriveFile(N_IMSCC, es) : es \in TreeFamily \cup ManifestFamily }
    \cup { DriveFile(n, << Blob(MANIFEST_NAME, TreeManifest), Blob(P_Q, LegacyQuiz) >>) :
             n \in { N_UPPER_IMSCC, N_ZIP } }

----------------------------------------------------------------------------
(* convertIMSCCToForms, lines 74-148.  An exception thrown inside the try   *)
(* block is caught at line 130: the run gets the failure result and the     *)
(* finally block is what is left to do.                                     *)

Failure(message) ==
    [ success |-> FALSE, message |-> message, formIds |-> << >> ]

Success(ids) ==
    [ success |-> TRUE, message |-> "converted", formIds |-> ids ]

\* Lines 130-136
Catch(message) ==
    /\ result' = << Failure(message) >>
    /\ pc' = "finally"

Init ==
    /\ pc = "idle"
    /\ file = << >>
    /\ folders = << >>
    /\ tempFolder = 0
    /\ tempFile = "none"
    /\ unzips = << >>
    /\ extracted = << >>
    /\ tree = << >>
    /\ manifest = << >>
    /\ quizzes = << >>
    /\ qi = 0
    /\ resolved = << >>
    /\ forms = << >>
    /\ formIds = << >>
    /\ sheet = << >>
    /\ result = << >>
    /\ atStart = [ forms |-> 0, rows |-> 0 ]

\* Lines 80-92: the file of fileId and the check of its extension, for a
\* fileId that names no file or one of files
GetFileFrom(files) ==
    /\ pc = "idle"
    /\ \/ /\ file' = << >>
          /\ Catch("File not found")
       \/ \E f \in files :
            /\ file' = << f >>
            /\ IF EndsWith(ToLowerCase(f.name), DOT_IMSCC)
               THEN pc' = "createTemp" /\ UNCHANGED result
               ELSE Catch("Not an IMSCC file")
    /\ atStart' = [ forms |-> Len(forms), rows |-> Len(sheet) ]
    /\ UNCHANGED << folders, tempFolder, tempFile, unzips, extracted, tree,
                    manifest, quizzes, qi, resolved, forms, formIds, sheet >>

GetFile == GetFileFrom(DriveFiles)

\* CreateTempFolder as it would be if a folder of that name were taken back
\* and used as it is, with what it holds
CreateTempFolder_ReusesFolder ==
    /\ pc = "createTemp"
    /\ IF folders = << >>
       THEN /\ folders' = << [ trashed |-> FALSE ] >>
            /\ tempFolder' = 1
            /\ tree' = << >>
            /\ tempFile' = "none"
       ELSE \E existing \in DOMAIN folders :
              /\ folders' = [ folders EXCEPT ![existing].trashed = FALSE ]
              /\ tempFolder' = existing
              /\ UNCHANGED << tree, tempFile >>
    /\ pc' = "unzip"
    /\ UNCHANGED << file, unzips, extracted, manifest, quizzes,
                    qi, resolved, forms, formIds, sheet, result,
                    atStart >>

\* Lines 95 and 155-165: the first folder of that name, if any, is trashed
\* (getFoldersByName lists trashed folders too, in no specified order) and a
\* new one is created, which has nothing in it
CreateTempFolder ==
    /\ pc = "createTemp"
    /\ \E existing \in (IF folders = << >> THEN {0} ELSE DOMAIN folders) :
         folders' = Append(IF existing = 0 THEN folders
                           ELSE [ folders EXCEPT ![existing].trashed = TRUE ],
                           [ trashed |-> FALSE ])
    /\ tempFolder' = Len(folders) + 1
    /\ tree' = << >>
    /\ tempFile' = "none"
    /\ pc' = "unzip"
    /\ UNCHANGED << file, unzips, extracted, manifest, quizzes,
                    qi, resolved, forms, formIds, sheet, result,
                    atStart >>

\* Lines 195-201: Utilities.unzip of the blob in memory; it returns the
\* entries or throws
UnzipBlob ==
    /\ pc = "unzip"
    /\ \/ /\ unzips' = Append(unzips, [ from |-> "blob", ok |-> TRUE ])
          /\ extracted' = << file[1].entries >>
          /\ pc' = "extract"
       \/ /\ unzips' = Append(unzips, [ from |-> "blob", ok |-> FALSE ])
          /\ extracted' = extracted
          /\ pc' = "retry"
    /\ UNCHANGED << file, folders, tempFolder, tempFile, tree, manifest,
                    quizzes, qi, resolved, forms, formIds, sheet, result,
                    atStart >>

\* UnzipCopy as it would be if the alternative approach were tried again
\* after it failed
UnzipCopy_TriesAgain ==
    /\ pc = "retry"
    /\ \/ /\ unzips' = Append(unzips, [ from |-> "copy", ok |-> TRUE ])
          /\ extracted' = << file[1].entries >>
          /\ tempFile' = "trashed"
          /\ pc' = "extract"
          /\ UNCHANGED result
       \/ /\ unzips' = Append(unzips, [ from |-> "copy", ok |-> FALSE ])
          /\ extracted' = extracted
          /\ tempFile' = "live"
          /\ IF Len(unzips) < 2
             THEN pc' = pc /\ UNCHANGED result
             ELSE Catch("Failed to extract IMSCC file")
    /\ UNCHANGED << file, folders, tempFolder, tree, manifest, quizzes, qi,
                    resolved, forms, formIds, sheet, atStart >>

\* Lines 203-210 and 269-273: the blob is copied into tempFolder and the
\* copy is unzipped; the copy is trashed only when that succeeds
UnzipCopy ==
    /\ pc = "retry"
    /\ \/ /\ unzips' = Append(unzips, [ from |-> "copy", ok |-> TRUE ])
          /\ extracted' = << file[1].entries >>
          /\ tempFile' = "trashed"
          /\ pc' = "extract"
          /\ UNCHANGED result
       \/ /\ unzips' = Append(unzips, [ from |-> "copy", ok |-> FALSE ])
          /\ extracted' = extracted
          /\ tempFile' = "live"
          /\ Catch("Failed to extract IMSCC file")
    /\ UNCHANGED << file, folders, tempFolder, tree, manifest, quizzes, qi,
                    resolved, forms, formIds, sheet,
                    atStart >>

\* Lines 213-267 and 269-273
ExtractFiles ==
    /\ pc = "extract"
    /\ IF Len(extracted[1]) = 0
       THEN /\ Catch("Failed to extract IMSCC file")
            /\ UNCHANGED tree
       ELSE /\ tree' = ExtractAll(tree, extracted[1], 1)
            /\ pc' = "manifest"
            /\ UNCHANGED result
    /\ UNCHANGED << file, folders, tempFolder, tempFile, unzips, extracted,
                    manifest, quizzes, qi, resolved, forms, formIds, sheet,
                    atStart >>

\* ManifestFiles as it would be with a search of the whole tree
ManifestFiles_WholeTree(t) ==
    { n \in 1..Len(t) : ~t[n].dir /\ t[n].name = MANIFEST_NAME }

\* Line 283: tempFolder.getFilesByName('imsmanifest.xml'), the files that are
\* children of tempFolder itself
ManifestFiles(t) == FilesByName(t, 0, MANIFEST_NAME)

\* FindAndParseManifest as it would be if a manifest that does not parse were
\* handed on as an empty document
FindAndParseManifest_NoParseError ==
    /\ pc = "manifest"
    /\ IF ManifestFiles(tree) = {}
       THEN /\ Catch("No imsmanifest.xml found")
            /\ UNCHANGED manifest
       ELSE \E n \in ManifestFiles(tree) :
              /\ manifest' = << tree[n].doc >>
              /\ pc' = "select"
              /\ UNCHANGED result
    /\ UNCHANGED << file, folders, tempFolder, tempFile, unzips, extracted,
                    tree, quizzes, qi, resolved, forms, formIds, sheet,
                    atStart >>

\* Lines 282-300
FindAndParseManifest ==
    /\ pc = "manifest"
    /\ IF ManifestFiles(tree) = {}
       THEN /\ Catch("No imsmanifest.xml found")
            /\ UNCHANGED manifest
       ELSE \E n \in ManifestFiles(tree) :
              IF tree[n].doc.wf
              THEN /\ manifest' = << tree[n].doc >>
                   /\ pc' = "select"
                   /\ UNCHANGED result
              ELSE /\ Catch("Failed to parse manifest XML")
                   /\ UNCHANGED manifest
    /\ UNCHANGED << file, folders, tempFolder, tempFile, unzips, extracted,
                    tree, quizzes, qi, resolved, forms, formIds, sheet,
                    atStart >>

\* Lines 309-374: the descriptors of the selected resources.  With none, the
\* content loop and the loop of createGoogleForms have nothing to do.
FindQuizzesInManifest ==
    /\ pc = "select"
    /\ quizzes' = SelectQuizzes(manifest[1])
    /\ qi' = 1
    /\ pc' = IF Len(quizzes') = 0 THEN "sheet" ELSE "content"
    /\ UNCHANGED << file, folders, tempFolder, tempFile, unzips, extracted,
                    tree, manifest, resolved, forms, formIds, sheet, result,
                    atStart >>

\* The body file of a search outcome is missing, does not parse, or has a root
\* that is neither questestinterop nor assessment
FailingBody(t, found) ==
    \/ found.node = 0
    \/ ~t[found.node].doc.wf
    \/ t[found.node].doc.root \notin { "questestinterop", "assessment" }

\* FindAndParseQuizContent as it would be without its own try/catch: the
\* failure of one resource reaches the catch of line 383 and ends the loop
FindAndParseQuizContent_FailureEndsLoop ==
    /\ pc = "content"
    /\ \E found \in FindQuizFile(tree, quizzes[qi]) :
         /\ resolved' = Append(resolved, found)
         /\ IF FailingBody(tree, found)
            THEN quizzes' = quizzes /\ pc' = "forms" /\ qi' = 1
            ELSE /\ quizzes' = [ quizzes EXCEPT
                       ![qi].content = << QuizContent(tree, quizzes[qi], found) >> ]
                 /\ IF qi = Len(quizzes)
                    THEN pc' = "forms" /\ qi' = 1
                    ELSE pc' = pc /\ qi' = qi + 1
    /\ UNCHANGED << file, folders, tempFolder, tempFile, unzips, extracted,
                    tree, manifest, forms, formIds, sheet, result, atStart >>

\* Lines 377-380 with 396-469, one iteration
FindAndParseQuizContent ==
    /\ pc = "content"
    /\ \E found \in FindQuizFile(tree, quizzes[qi]) :
         /\ quizzes' = [ quizzes EXCEPT
                           ![qi].content = << QuizContent(tree, quizzes[qi], found) >> ]
         /\ resolved' = Append(resolved, found)
    /\ IF qi = Len(quizzes)
       THEN pc' = "forms" /\ qi' = 1
       ELSE pc' = pc /\ qi' = qi + 1
    /\ UNCHANGED << file, folders, tempFolder, tempFile, unzips, extracted,
                    tree, manifest, forms, formIds, sheet, result,
                    atStart >>

\* Lines 868-940, one iteration: FormApp.create makes the form, or throws and
\* the quiz is skipped (line 935)
CreateGoogleForm ==
    /\ pc = "forms"
    /\ \/ /\ quizzes[qi].content # << >>
          /\ forms' = Append(forms, MakeForm(quizzes[qi]))
          /\ formIds' = Append(formIds,
                               FormInfo(Len(forms) + 1, MakeForm(quizzes[qi]), quizzes[qi]))
       \/ UNCHANGED << forms, formIds >>
    /\ IF qi = Len(quizzes)
       THEN pc' = "sheet" /\ qi' = 1
       ELSE pc' = pc /\ qi' = qi + 1
    /\ UNCHANGED << file, folders, tempFolder, tempFile, unzips, extracted,
                    tree, manifest, quizzes, resolved, sheet, result,
                    atStart >>

\* UpdateAndReturn as it would be without the test of line 118
UpdateAndReturn_AlwaysUpdates ==
    /\ pc = "sheet"
    /\ sheet' = UpdateSpreadsheetWithFormInfo(sheet, formIds)
    /\ result' = << Success(formIds) >>
    /\ pc' = "finally"
    /\ UNCHANGED << file, folders, tempFolder, tempFile, unzips, extracted,
                    tree, manifest, quizzes, qi, resolved, forms, formIds,
                    atStart >>

\* Lines 117-128
UpdateAndReturn ==
    /\ pc = "sheet"
    /\ sheet' = IF Len(formIds) > 0
                THEN UpdateSpreadsheetWithFormInfo(sheet, formIds)
                ELSE sheet
    /\ result' = << Success(formIds) >>
    /\ pc' = "finally"
    /\ UNCHANGED << file, folders, tempFolder, tempFile, unzips, extracted,
                    tree, manifest, quizzes, qi, resolved, forms, formIds,
                    atStart >>

\* Finally as it would be with the cleanup as the last statement of the try
\* block: a run that failed leaves its folder
Finally_CleanupOnSuccessOnly ==
    /\ pc = "finally"
    /\ folders' = IF tempFolder # 0 /\ result[1].success
                  THEN CleanupTempFolder(folders, tempFolder)
                  ELSE folders
    /\ pc' = "done"
    /\ UNCHANGED << file, tempFolder, tempFile, unzips, extracted, tree,
                    manifest, quizzes, qi, resolved, forms, formIds, sheet,
                    result, atStart >>

\* Lines 137-147: the finally block; after it the caller has the result
Finally ==
    /\ pc = "finally"
    /\ folders' = IF tempFolder # 0 THEN CleanupTempFolder(folders, tempFolder)
                  ELSE folders
    /\ pc' = "done"
    /\ UNCHANGED << file, tempFolder, tempFile, unzips, extracted, tree,
                    manifest, quizzes, qi, resolved, forms, formIds, sheet,
                    result,
                    atStart >>

Next ==
    \/ GetFile
    \/ CreateTempFolder
    \/ UnzipBlob
    \/ UnzipCopy
    \/ ExtractFiles
    \/ FindAndParseManifest
    \/ FindQuizzesInManifest
    \/ FindAndParseQuizContent
    \/ CreateGoogleForm
    \/ UpdateAndReturn
    \/ Finally

Spec == Init /\ [][Next]_vars

----------------------------------------------------------------------------
(* A sequence of conversions.  The script has no state of its own between   *)
(* two invocations: the next one starts at line 74 with fresh locals and    *)
(* finds Drive, the forms and the sheet as the last one left them.          *)

\* The manifest of an archive with two quizzes, and one with none
TwoQuizManifest ==
    ManifestDoc(TRUE,
        << Resource(<< T_QTI12 >>, << "r1" >>, << P_Q >>, << >>, << >>),
           Resource(<< T_QTI21 >>, << "r2" >>, << >>, << << P_D_Q >> >>,
                    << "Second" >>) >>)

RunFiles ==
    { DriveFile(N_IMSCC, << Blob(MANIFEST_NAME, TwoQuizManifest),
                            Blob(P_Q, LegacyQuiz), Blob(P_D_Q, ModernQuiz) >>),
      DriveFile(N_IMSCC, << Blob(MANIFEST_NAME, ManifestDoc(FALSE, << >>)) >>),
      DriveFile(N_ZIP, << Blob(MANIFEST_NAME, TwoQuizManifest) >>) }

GetRunFile == GetFileFrom(RunFiles)

\* Lines 74-78: the caller invokes convertIMSCCToForms once more
ConvertAgain ==
    /\ pc = "done"
    /\ Len(folders) < MaxRuns
    /\ pc' = "idle"
    /\ file' = << >>
    /\ tempFolder' = 0
    /\ unzips' = << >>
    /\ extracted' = << >>
    /\ manifest' = << >>
    /\ quizzes' = << >>
    /\ qi' = 0
    /\ resolved' = << >>
    /\ formIds' = << >>
    /\ result' = << >>
    /\ UNCHANGED << folders, tempFile, tree, forms, sheet, atStart >>

NextRuns ==
    \/ GetRunFile
    \/ CreateTempFolder
    \/ UnzipBlob
    \/ UnzipCopy
    \/ ExtractFiles
    \/ FindAndParseManifest
    \/ FindQuizzesInManifest
    \/ FindAndParseQuizContent
    \/ CreateGoogleForm
    \/ UpdateAndReturn
    \/ Finally
    \/ ConvertAgain

SpecRuns == Init /\ [][NextRuns]_vars

----------------------------------------------------------------------------
(* Conversions of archives whose quiz body varies.  The archive has the     *)
(* manifest and one body, q.xml, which the manifest's only resource names.  *)

QuestionTypes ==
    { "multiple_choice_question", "multiple_answers_question",
      "essay_question", "true_false_question" }

\* The metadata of an item: no question_type field, or one
TypeFields ==
    { << >> } \cup { << Field("question_type", t) >> : t \in QuestionTypes }

\* The respconditions of an item: per respcondition the varequal text, if any
CondsPool ==
    { << >>,
      << << "A" >> >>,
      << << "A" >>, << "B" >> >>,
      << << "A" >>, << >>, << "C" >> >>,
      << << "B" >>, << "A" >>, << >> >> }

LegacyItemPool ==
    { Item(fields, conds, FALSE, {}, << >>) :
        fields \in TypeFields, conds \in CondsPool }

Interactions ==
    { "choiceInteraction", "extendedTextInteraction", "textEntryInteraction" }

ValuesPool == { << >>, << "A" >>, << "A", "B" >> }

\* Modern items: without an itemBody, or with one that holds any of the
\* interactions
ModernItemPool ==
    { Item(<< >>, << >>, FALSE, {}, values) : values \in ValuesPool }
    \cup { Item(<< >>, << >>, TRUE, interactions, values) :
             interactions \in SUBSET Interactions, values \in ValuesPool }

\* The qtimetadata of an assessment
DescriptionFields ==
    { << >>,
      << Field("qmd_description", "one") >>,
      << Field("qmd_description", "one"), Field("qmd_description", "two") >>,
      << Field("qmd_timelimit", "two"), Field("qmd_description", "one") >>,
      << Field("qmd_description", "one"), Field("qmd_description", "") >>,
      << Field("qmd_description", ""), Field("qmd_timelimit", "two") >> }

\* Items for the bodies that have several
SomeLegacyItems ==
    { Item(<< Field("question_type", "multiple_choice_question") >>,
           << << "A" >> >>, FALSE, {}, << >>),
      Item(<< Field("question_type", "multiple_choice_question") >>,
           << >>, FALSE, {}, << >>),
      Item(<< Field("question_type", "essay_question") >>,
           << << "A" >> >>, FALSE, {}, << >>) }

SomeModernItems ==
    { Item(<< >>, << >>, TRUE, {"choiceInteraction"}, << "A", "B" >>),
      Item(<< >>, << >>, TRUE, {"textEntryInteraction"}, << >>) }

BodyPool ==
    { LegacyDoc(TRUE, << "Legacy" >>, fields, << >>, << >>) :
        fields \in DescriptionFields }
    \cup { LegacyDoc(TRUE, << >>, << >>, << item >>, << >>) :
             item \in LegacyItemPool }
    \cup { LegacyDoc(TRUE, << >>, << >>, items,
                     << Item(<< >>, << << "B" >> >>, FALSE, {}, << >>) >>) :
             items \in SeqsUpTo(SomeLegacyItems, MaxItems) }
    \cup { ModernDoc(<< >>, << item >>) : item \in ModernItemPool }
    \cup { ModernDoc(<< "Modern" >>, items) :
             items \in SeqsUpTo(SomeModernItems, MaxItems) }
    \cup { LegacyDoc(FALSE, << >>, << >>, << >>, << >>), BadDoc({}), OtherXml }

BodyManifest ==
    ManifestDoc(TRUE, << Resource(<< T_QTI12 >>, << "r1" >>, << P_Q >>, << >>, << >>) >>)

BodyFiles ==
    { DriveFile(N_IMSCC, << Blob(MANIFEST_NAME, BodyManifest), Blob(P_Q, body) >>) :
        body \in BodyPool }

GetBodyFile == GetFileFrom(BodyFiles)

NextBodies ==
    \/ GetBodyFile
    \/ CreateTempFolder
    \/ UnzipBlob
    \/ UnzipCopy
    \/ ExtractFiles
    \/ FindAndParseManifest
    \/ FindQuizzesInManifest
    \/ FindAndParseQuizContent
    \/ CreateGoogleForm
    \/ UpdateAndReturn
    \/ Finally

SpecBodies == Init /\ [][NextBodies]_vars

----------------------------------------------------------------------------
(* Properties *)

\* The invocation has returned to its caller
Returned == pc = "done"

\* C1: every invocation that created the workspace folder has trashed it by
\* the time it returns, whatever the exit path (normal completion, a failed
\* extraction, a missing or unparseable manifest, forms that failed).
C1_WorkspaceReleased ==
    (Returned /\ tempFolder # 0) => folders[tempFolder].trashed

\* C1, its case: a run that created the folder and then failed has returned.
C1_Witness ==
    /\ Returned
    /\ tempFolder # 0
    /\ ~result[1].success
    /\ folders[tempFolder].trashed

\* The last segment of a path
BaseName(path) == LET parts == Split(path) IN parts[Len(parts)]

\* Both decompression attempts threw
ArchiveNotOpened ==
    /\ Len(unzips) = 2
    /\ ~unzips[1].ok
    /\ ~unzips[2].ok

\* The archive was opened and has no entry, or none named imsmanifest.xml
\* that parses
NoUsableManifest ==
    /\ extracted # << >>
    /\ \A i \in DOMAIN extracted[1] :
         BaseName(extracted[1][i].name) = MANIFEST_NAME => ~extracted[1][i].doc.wf

\* C2: when the archive cannot be opened, has zero entries, or has no
\* manifest or only an unparseable one, the run makes no form and appends no
\* row, and it returns one result, with success = false, instead of throwing.
C2_FatalFailureAborts ==
    (ArchiveNotOpened \/ NoUsableManifest) =>
        /\ Len(forms) = atStart.forms
        /\ Len(sheet) = atStart.rows
        /\ Returned => (Len(result) = 1 /\ ~result[1].success)

\* C2, its case: a run on an opened, non-empty archive whose manifest does not
\* parse has returned its failure.
C2_Witness ==
    /\ Returned
    /\ NoUsableManifest
    /\ \E i \in DOMAIN extracted[1] : BaseName(extracted[1][i].name) = MANIFEST_NAME
    /\ ~result[1].success

\* The content loop of findQuizzesInManifest is over
ContentLoopDone ==
    /\ manifest # << >>
    /\ pc \in { "forms", "sheet", "finally", "done" }

\* C3: a resource whose body is missing, unparseable or of an unsupported
\* root gets a placeholder (its title, empty description, no questions); all
\* other selected resources are still resolved and parsed, and there are as
\* many quiz records as selected resources.
C3_FailureIsolated ==
    /\ \A i \in DOMAIN resolved :
         FailingBody(tree, resolved[i]) =>
             quizzes[i].content =
                 << [ title |-> quizzes[i].title, description |-> "",
                      questions |-> << >> ] >>
    /\ ContentLoopDone =>
         /\ Len(quizzes) =
                IF manifest[1].hasResources
                THEN Cardinality({ k \in DOMAIN manifest[1].resources :
                                      Selected(manifest[1].resources[k]) })
                ELSE 0
         /\ Len(resolved) = Len(quizzes)
         /\ \A i \in DOMAIN quizzes :
              /\ quizzes[i].content # << >>
              /\ ~FailingBody(tree, resolved[i]) =>
                   quizzes[i].content =
                       << ParseQuizXml(tree[resolved[i].node].doc, quizzes[i]) >>

\* C3, its case: a resource failed and a later one was parsed into questions.
C3_Witness ==
    /\ ContentLoopDone
    /\ \E i, j \in DOMAIN resolved :
         /\ i < j
         /\ FailingBody(tree, resolved[i])
         /\ ~FailingBody(tree, resolved[j])
         /\ Len(quizzes[j].content[1].questions) > 0

\* The path of a node, as the names from tempFolder down to it
RECURSIVE PathOf(_, _)
PathOf(t, n) ==
    IF t[n].parent = 0 THEN << t[n].name >>
    ELSE Append(PathOf(t, t[n].parent), t[n].name)

NonEmpty(segment) == segment # << >>

\* The names a slash-delimited path walks through; 'd//q.xml' and '/d/q.xml'
\* walk through d and q.xml, as 'd/q.xml' does
Segments(path) == SelectSeq(Split(path), NonEmpty)

\* An entry that is a directory marker
IsDirectoryEntry(blob) == blob.name[Len(blob.name)] = "/"

IsPrefix(a, b) == Len(a) <= Len(b) /\ SubSeq(b, 1, Len(a)) = a

\* extractIMSCC has returned the files it made
ExtractionDone ==
    /\ extracted # << >>
    /\ Len(extracted[1]) > 0
    /\ pc # "extract"

\* C4: after extractIMSCC every entry that is not a directory marker has its
\* own leaf file, with its payload, at its path, and every node of the tree
\* is such a leaf or a folder on the way to one: a directory marker adds
\* nothing.
C4_ExtractedTree ==
    ExtractionDone =>
        LET entries == extracted[1]
            fileEntries == { i \in DOMAIN entries : ~IsDirectoryEntry(entries[i]) }
            leaves == { n \in DOMAIN tree : ~tree[n].dir }
        IN  /\ \A i \in fileEntries :
                 \E n \in leaves :
                     /\ PathOf(tree, n) = Segments(entries[i].name)
                     /\ tree[n].doc = entries[i].doc
            /\ Cardinality(leaves) = Cardinality(fileEntries)
            /\ \A n \in DOMAIN tree :
                 \E i \in fileEntries :
                     /\ IsPrefix(PathOf(tree, n), Segments(entries[i].name))
                     /\ tree[n].dir <=>
                            Len(PathOf(tree, n)) < Len(Segments(entries[i].name))

\* C4, its case: an archive of directory markers and one file two folders
\* deep was extracted into that one leaf and its two folders, nothing else.
C4_Witness ==
    /\ ExtractionDone
    /\ Len(extracted[1]) = 3
    /\ extracted[1][1].name = P_D_E
    /\ extracted[1][2].name = P_D_E
    /\ Len(tree) = 3
    /\ \E n \in DOMAIN tree : ~tree[n].dir /\ PathOf(tree, n) = Segments(P_D_E_QTXT)

\* C5: no folder has two child folders of one name, and any two folders
\* reached by the same path are one node, so entries that share a prefix
\* lie under the same folders.
C5_GetOrCreate ==
    /\ \A m, n \in DOMAIN tree :
         (/\ tree[m].dir
          /\ tree[n].dir
          /\ tree[m].parent = tree[n].parent
          /\ tree[m].name = tree[n].name) => m = n
    /\ \A m, n \in DOMAIN tree :
         (tree[m].dir /\ tree[n].dir /\ PathOf(tree, m) = PathOf(tree, n)) => m = n

\* C5, its case: two entries with a common folder were both extracted under
\* one folder node.
C5_Witness ==
    \E m, n \in DOMAIN tree :
        /\ m # n
        /\ ~tree[m].dir
        /\ ~tree[n].dir
        /\ tree[m].parent # 0
        /\ tree[m].parent = tree[n].parent

\* C6: at most two decompression attempts are made; the first is on the blob
\* in memory, the second only after the first threw and on a copy persisted
\* in the workspace; when the second throws too nothing is extracted and the
\* run returns the extraction failure.
C6_OneRetry ==
    /\ Len(unzips) <= 2
    /\ Len(unzips) >= 1 => unzips[1].from = "blob"
    /\ Len(unzips) = 2 =>
         /\ ~unzips[1].ok
         /\ unzips[2].from = "copy"
         /\ tempFile # "none"
    /\ tempFile # "none" => Len(unzips) = 2
    /\ ArchiveNotOpened =>
         /\ extracted = << >>
         /\ tree = << >>
         /\ pc \in { "finally", "done" }
         /\ result = << Failure("Failed to extract IMSCC file") >>

\* C6, its case: both attempts threw and the run has returned.
C6_Witness ==
    /\ Returned
    /\ ArchiveNotOpened
    /\ tempFile = "live"

NotFoundFailure == << Failure("No imsmanifest.xml found") >>

\* findAndParseManifest has returned or thrown
ManifestStepDone == ExtractionDone /\ pc # "manifest"

\* Some file of the extracted tree, at any depth, is named imsmanifest.xml
TreeHasManifest ==
    \E n \in DOMAIN tree : ~tree[n].dir /\ tree[n].name = MANIFEST_NAME

\* A file named imsmanifest.xml lies directly in the workspace folder
RootHasManifest ==
    \E n \in DOMAIN tree : PathOf(tree, n) = << MANIFEST_NAME >> /\ ~tree[n].dir

WantedType(type) ==
    \/ type \in { T_QTI12, T_QTI21 }
    \/ \E word \in { S_ASSESSMENT, S_QTI, S_QUIZ } : Includes(type, word)

\* A resource element that must get a descriptor
Wanted(r) ==
    /\ r.type # << >>
    /\ r.identifier # << >>
    /\ WantedType(r.type[1])

\* The resource elements of the parsed manifest that must get a descriptor,
\* in document order
WantedResources ==
    IF manifest[1].hasResources THEN SelectSeq(manifest[1].resources, Wanted)
    ELSE << >>

\* The selection of findQuizzesInManifest has been made
SelectionDone == manifest # << >> /\ pc # "select"

\* C8: the descriptors are, in document order, those of the resource elements
\* that have an identifier and a type equal to imsqti_xmlv1p2 or
\* imsqti_xmlv2p1 or containing 'assessment', 'qti' or 'quiz' in that very
\* case; a webcontent resource never gets one, an imsqti_xmlv1p2 resource
\* with an identifier always does.
C8_Selection ==
    SelectionDone =>
        /\ Len(quizzes) = Len(WantedResources)
        /\ \A k \in DOMAIN quizzes :
             /\ quizzes[k].identifier = WantedResources[k].identifier[1]
             /\ quizzes[k].href =
                    IF WantedResources[k].href = << >> THEN << >>
                    ELSE WantedResources[k].href[1]
             /\ quizzes[k].title =
                    IF WantedResources[k].title = << >>
                    THEN WantedResources[k].identifier[1]
                    ELSE WantedResources[k].title[1]
        /\ Len(quizzes) =
               Cardinality({ k \in DOMAIN manifest[1].resources :
                   /\ manifest[1].hasResources
                   /\ manifest[1].resources[k].identifier # << >>
                   /\ manifest[1].resources[k].type \in
                          { << T_QTI12 >>, << T_QTI21 >>, << T_MY_QUIZ >>,
                            << T_ASSESSMENT_X >> } })

\* C8, its case: of a webcontent resource followed by an imsqti_xmlv2p1
\* resource and of nothing else, exactly the second got a descriptor.
C8_Witness ==
    /\ SelectionDone
    /\ Len(manifest[1].resources) = 2
    /\ manifest[1].resources[1].type = << T_WEBCONTENT >>
    /\ manifest[1].resources[2].type = << T_QTI21 >>
    /\ Len(quizzes) = 1
    /\ quizzes[1].identifier = "r2"

\* The parsed manifest has no resources container or no quiz resource
NoQuizResources ==
    /\ manifest # << >>
    /\ \/ ~manifest[1].hasResources
       \/ \A k \in DOMAIN manifest[1].resources : ~Wanted(manifest[1].resources[k])

\* C9: with no resources container, or no quiz-typed resource, the quiz list
\* is empty, no form is made, no row is appended, and the run returns
\* success with zero forms.
C9_NoQuizzesIsSuccess ==
    (NoQuizResources /\ pc # "select") =>
        /\ quizzes = << >>
        /\ Len(forms) = atStart.forms
        /\ Len(sheet) = atStart.rows
        /\ pc \in { "sheet", "finally", "done" }
        /\ Returned => result = << Success(<< >>) >>

\* C9, its case: a run on a manifest with resources, none of them a quiz, has
\* returned.
C9_Witness ==
    /\ Returned
    /\ NoQuizResources
    /\ manifest[1].hasResources
    /\ Len(manifest[1].resources) > 0
    /\ result[1].success

\* The declared hrefs of a quiz that end in '.xml' and resolve in the tree
ResolvingDeclared(quiz) ==
    { k \in DOMAIN quiz.files :
        /\ Len(quiz.files[k]) >= 4
        /\ SubSeq(quiz.files[k], Len(quiz.files[k]) - 3, Len(quiz.files[k])) = DOT_XML
        /\ FindFileByPath(tree, quiz.files[k]) # {} }

\* C10: the file is the one at the href if that resolves; else the file of
\* the first declared href ending in '.xml' that resolves; the whole-tree
\* scan runs only when neither exists.
C10_ResolverPriority ==
    \A i \in DOMAIN resolved :
        LET quiz == quizzes[i]
            byHref == FindFileByPath(tree, quiz.href)
            declared == ResolvingDeclared(quiz)
        IN  /\ byHref # {} =>
                 /\ resolved[i].node \in byHref
                 /\ ~resolved[i].scanned
            /\ (byHref = {} /\ declared # {}) =>
                 /\ resolved[i].node \in FindFileByPath(tree, quiz.files[Min(declared)])
                 /\ ~resolved[i].scanned
            /\ resolved[i].scanned <=> (byHref = {} /\ declared = {})

\* C10, its case: the href did not resolve, a declared '.xml' file that is
\* not the first declared one did, and it was taken without the scan, which
\* would have found a file.
C10_Witness ==
    \E i \in DOMAIN resolved :
        /\ quizzes[i].href # << >>
        /\ FindFileByPath(tree, quizzes[i].href) = {}
        /\ resolved[i].via = "files"
        /\ resolved[i].node \in FindFileByPath(tree, P_D_Q)
        /\ ~resolved[i].scanned
        /\ ScanHits(tree, quizzes[i]) # {}

----------------------------------------------------------------------------
(* Sequences of conversions: SpecRuns *)

\* Extraction begins: extractIMSCC is entered with the folder just created
ExtractionBegins == pc = "unzip"

LiveFolders == { i \in DOMAIN folders : ~folders[i].trashed }

RowOfForm(i) ==
    [ header |-> FALSE, id |-> i, title |-> forms[i].title,
      numQuestions |-> Len(forms[i].items) ]

\* C18: once a conversion has returned, a sheet that began empty is empty if
\* no form was ever made, and else is the header row followed by exactly one
\* row per form made so far, in creation order; a conversion that made no
\* form has left the sheet as it found it.
C18_SheetRows ==
    Returned =>
        /\ IF forms = << >> THEN sheet = << >>
           ELSE /\ Len(sheet) = Len(forms) + 1
                /\ sheet[1] = HeaderRow
                /\ \A i \in 1..Len(forms) : sheet[i + 1] = RowOfForm(i)
        /\ Len(forms) = atStart.forms => Len(sheet) = atStart.rows

\* C18, its case: a conversion that made forms has returned after an earlier
\* one had already put the header and its rows in the sheet.
C18_Witness ==
    /\ Returned
    /\ atStart.rows > 1
    /\ Len(forms) > atStart.forms
    /\ Len(sheet) = Len(forms) + 1

----------------------------------------------------------------------------
(* Quiz bodies: SpecBodies *)

\* The document of the file found for quiz i
BodyOf(i) == tree[resolved[i].node].doc

\* The file found for quiz i went to parseQtiv1Quiz and had an assessment
LegacyParsed(i) ==
    /\ resolved[i].node # 0
    /\ BodyOf(i).wf
    /\ BodyOf(i).root = "questestinterop"
    /\ BodyOf(i).hasAssessment

\* The file found for quiz i went to parseQtiv2Quiz
ModernParsed(i) ==
    /\ resolved[i].node # 0
    /\ BodyOf(i).wf
    /\ BodyOf(i).root = "assessment"

\* The items of a legacy body in the order their questions are pushed
ItemsOf(i) == BodyOf(i).items \o BodyOf(i).sectionItems

QuestionsOf(i) == quizzes[i].content[1].questions

\* The respconditions of an item that have a conditionvar/varequal
WithVarequal(item) == { k \in DOMAIN item.conds : item.conds[k] # << >> }

Last(S) == CHOOSE x \in S : \A y \in S : y <= x

\* C12: a legacy question of type multiple_choice_question has as its
\* correctAnswer the varequal text of the last respcondition that has one
\* (absent when none has): "A" then "B" give "B".
C12_LastVarequalWins ==
    \A i \in DOMAIN resolved : LegacyParsed(i) =>
        \A n \in DOMAIN QuestionsOf(i) :
            QuestionsOf(i)[n].type = "multiple_choice_question" =>
                LET item == ItemsOf(i)[n]
                    with == WithVarequal(item)
                IN  QuestionsOf(i)[n].correctAnswer =
                        IF with = {} THEN NullAnswer
                        ELSE Scalar(item.conds[Last(with)][1])

\* C12, its case: a multiple-choice item with the values "A" then "B" was
\* parsed, and its answer is "B".
C12_Witness ==
    \E i \in DOMAIN resolved :
        /\ LegacyParsed(i)
        /\ \E n \in DOMAIN QuestionsOf(i) :
             /\ QuestionsOf(i)[n].type = "multiple_choice_question"
             /\ ItemsOf(i)[n].conds = << << "A" >>, << "B" >> >>
             /\ QuestionsOf(i)[n].correctAnswer = Scalar("B")

\* C13: a legacy question of type multiple_answers_question has as its
\* correctAnswer all the varequal texts of its respconditions (absent when
\* there is none); a legacy question of any type other than these two has no
\* correctAnswer, whatever its respconditions hold.
C13_AllVarequalsCollected ==
    \A i \in DOMAIN resolved : LegacyParsed(i) =>
        \A n \in DOMAIN QuestionsOf(i) :
            LET question == QuestionsOf(i)[n]
                item == ItemsOf(i)[n]
                with == WithVarequal(item)
            IN  /\ question.type = "multiple_answers_question" =>
                     IF with = {} THEN question.correctAnswer = NullAnswer
                     ELSE /\ question.correctAnswer.k = "list"
                          /\ Range(question.correctAnswer.v) =
                                 { item.conds[k][1] : k \in with }
                /\ question.type \notin { "multiple_choice_question",
                                          "multiple_answers_question" } =>
                     question.correctAnswer = NullAnswer

\* C13, its case: a multiple-answers item with the values "A" and "C" in two
\* of its three respconditions was parsed.
C13_Witness ==
    \E i \in DOMAIN resolved :
        /\ LegacyParsed(i)
        /\ \E n \in DOMAIN QuestionsOf(i) :
             /\ QuestionsOf(i)[n].type = "multiple_answers_question"
             /\ ItemsOf(i)[n].conds = << << "A" >>, << >>, << "C" >> >>
             /\ Range(QuestionsOf(i)[n].correctAnswer.v) = { "A", "C" }

\* The forms this run has made; when every quiz got its form, form i is the
\* one of quiz i
FormsOfRun == SubSeq(forms, atStart.forms + 1, Len(forms))

AllFormsMade ==
    /\ ContentLoopDone
    /\ pc \in { "sheet", "finally", "done" }
    /\ quizzes # << >>
    /\ Len(FormsOfRun) = Len(quizzes)

\* C14: a modern question has the type of the first interaction its itemBody
\* holds, in the order choice, extended text, text entry, and the type "" if
\* it holds none or there is no itemBody; every item yields a question, and
\* a question of type "" becomes a paragraph-text item of the form.
C14_ModernTypeInferred ==
    \A i \in DOMAIN resolved : ModernParsed(i) =>
        /\ Len(QuestionsOf(i)) = Len(BodyOf(i).items)
        /\ \A n \in DOMAIN QuestionsOf(i) :
             LET item == BodyOf(i).items[n]
                 has(x) == item.hasBody /\ x \in item.interactions
             IN  /\ QuestionsOf(i)[n].type =
                        IF has("choiceInteraction") THEN "multiple_choice_question"
                        ELSE IF has("extendedTextInteraction") THEN "essay_question"
                        ELSE IF has("textEntryInteraction") THEN "short_answer_question"
                        ELSE ""
                 /\ (AllFormsMade /\ QuestionsOf(i)[n].type = "") =>
                        FormsOfRun[i].items[n].widget = "ParagraphText"

\* C14, its case: an item whose itemBody holds no interaction was parsed and
\* its form was made.
C14_Witness ==
    /\ AllFormsMade
    /\ \E i \in DOMAIN resolved :
         /\ ModernParsed(i)
         /\ \E n \in DOMAIN QuestionsOf(i) :
              /\ BodyOf(i).items[n].hasBody
              /\ BodyOf(i).items[n].interactions = {}
              /\ QuestionsOf(i)[n].type = ""
              /\ FormsOfRun[i].items[n].widget = "ParagraphText"

\* C15: a modern question has no correctAnswer when correctResponse has no
\* value, the value's text when it has one, the list of the values' texts in
\* document order when it has several; its type is never
\* multiple_answers_question.
C15_ModernCorrectAnswer ==
    \A i \in DOMAIN resolved : ModernParsed(i) =>
        \A n \in DOMAIN QuestionsOf(i) :
            LET values == BodyOf(i).items[n].values
                answer == QuestionsOf(i)[n].correctAnswer
            IN  /\ Len(values) = 0 => answer.k = "null"
                /\ Len(values) = 1 => answer.k = "scalar" /\ answer.v = values
                /\ Len(values) > 1 => answer.k = "list" /\ answer.v = values
                /\ QuestionsOf(i)[n].type # "multiple_answers_question"

\* C15, its case: a choice item with two correct values was parsed.
C15_Witness ==
    \E i \in DOMAIN resolved :
        /\ ModernParsed(i)
        /\ \E n \in DOMAIN QuestionsOf(i) :
             /\ BodyOf(i).items[n].values = << "A", "B" >>
             /\ QuestionsOf(i)[n].correctAnswer = List(<< "A", "B" >>)
             /\ QuestionsOf(i)[n].type = "multiple_choice_question"

\* The fieldentry of the first field labelled qmd_description, "" without one
FirstDescription(fields) ==
    LET labelled == { k \in DOMAIN fields : fields[k].label = "qmd_description" }
    IN  IF labelled = {} THEN "" ELSE fields[Min(labelled)].entry

\* C16: the description of a legacy quiz is the fieldentry of the first
\* qtimetadatafield labelled qmd_description; later fields do not change it.
C16_FirstDescriptionWins ==
    \A i \in DOMAIN resolved : LegacyParsed(i) =>
        quizzes[i].content[1].description = FirstDescription(BodyOf(i).fields)

\* C17: the form of a quiz is a graded quiz if and only if one of the quiz's
\* questions has a correctAnswer; the form of a quiz without questions is not.
C17_GradedIffAnswers ==
    AllFormsMade =>
        \A i \in DOMAIN quizzes :
            FormsOfRun[i].isQuiz <=>
                \E n \in DOMAIN QuestionsOf(i) :
                    QuestionsOf(i)[n].correctAnswer.k # "null"

\* C17, its case: a form was made graded for a quiz of which one question
\* has an answer and another has none.
C17_Witness ==
    /\ AllFormsMade
    /\ \E i \in DOMAIN quizzes :
         /\ FormsOfRun[i].isQuiz
         /\ \E n, m \in DOMAIN QuestionsOf(i) :
              /\ QuestionsOf(i)[n].correctAnswer.k # "null"
              /\ QuestionsOf(i)[m].correctAnswer.k = "null"

\* C19: in every form that is a graded quiz, every item has its points set
\* to the points of its question, 1.
C19_PointsSetInGradedForms ==
    \A k \in DOMAIN forms :
        forms[k].isQuiz =>
            \A n \in DOMAIN forms[k].items : forms[k].items[n].points = << 1 >>

----------------------------------------------------------------------------
(* The whole-tree scan: Spec *)

\* C20: the file findAndParseQuizContent takes as the body of a resource is
\* never the imsmanifest.xml that findAndParseManifest reads; when href and
\* declared files do not resolve, the scan ends with a body file or with
\* not-found.
C20_NeverTheManifest ==
    \A i \in DOMAIN resolved :
        resolved[i].node # 0 => resolved[i].node \notin ManifestFiles(tree)

====
